---- MODULE Spec2Model ----
(***************************************************************************)
(* A model of adversarial_generator.py: the example sampler, the           *)
(* finite-difference gradient-sign estimator, the three attacks built on   *)
(* it, and the driver loop that reports their results.                     *)
(*                                                                         *)
(* Numbers.  Pixel values, step sizes and the probe step are integers in   *)
(* units of the probe step delta = 1e-5, so 1.0 is One and 0.1 is Tenth.   *)
(*                                                                         *)
(* Objects.  numpy arrays live in `heap` (id -> array) and every Python    *)
(* variable that holds an array holds its id, so aliasing (line 107) and   *)
(* copying (np.array, np.add, np.clip) are told apart.  Arrays no variable *)
(* refers to any more are dropped from the heap, as reference counting     *)
(* does.                                                                   *)
(*                                                                         *)
(* External calls.  model.predict and the Keras loss are opaque: the       *)
(* probability vector and the two loss values of a call are drawn from     *)
(* small sets.                                                             *)
(***************************************************************************)
EXTENDS Integers, Sequences, FiniteSets, TLC

VARIABLES
    examples,            \* the labeled example set: class -> list of array ids
    heap,                \* array id -> [batch, px]
    loaded,              \* history: the images per class load_data was given
    pc,                  \* control point of the running code
    caller,              \* "harness" (a function is exercised alone) or "main"
    fn,                  \* the function the caller invoked
    args,                \* the arguments of that call, as passed
    in_px,               \* history: pixel data of args.example when it was passed
    exc,                 \* the exception that ended the run, or "none"
    low_limit,           \* get_pure_examples: the offset drawn last (-1: none)
    pure_examples,       \* get_pure_examples: the list it returned last
    loss, loss_delta,    \* compute_gradient_sign: K.eval of the two losses
    gradient_sign,       \* the sign estimated last (0: none)
    y_true,              \* the label given to the estimator last (-1: none)
    epsilon,             \* fast_gradient_sign's local epsilon
    alpha,               \* the iterative attacks' local alpha
    adv_example,         \* the attacks' local adv_example (array id, 0: none)
    k,                   \* loop iterations completed
    estimates,           \* history: gradient-sign estimates made by this call
    llc_example,         \* least_likely_class's local example (array id)
    preds,               \* least_likely_class's local preds[0]
    ll_class,            \* the least likely class (-1: none)
    main_pure,           \* __main__: pure_examples
    main_i,              \* __main__: i
    main_j,              \* __main__: position in the running parameter loop
    main_epsilon,        \* __main__: epsilon, the loop variable of line 161
    main_alpha,          \* __main__: alpha, the loop variable of lines 167, 173
    adversarial_example, \* __main__: adversarial_example (array id)
    line                 \* the line the last step of __main__ printed (NoLine: none)

dataVars == <<examples, heap, loaded>>
ctlVars  == <<pc, caller, fn, args, in_px, exc>>
gpeVars  == <<low_limit, pure_examples>>
cgsVars  == <<loss, loss_delta, gradient_sign, y_true>>
atkVars  == <<epsilon, alpha, adv_example, k, estimates>>
llcVars  == <<llc_example, preds, ll_class>>
mainVars == <<main_pure, main_i, main_j, main_epsilon, main_alpha,
              adversarial_example, line>>
vars == <<dataVars, ctlVars, gpeVars, cgsVars, atkVars, llcVars, mainVars>>

----------------------------------------------------------------------------
(* Units and bounds *)

\* the probe step delta = 1e-5 is the unit of every pixel value and step
Delta == 1
\* the clip bound 1.0 in units of delta
One == 100000
\* x/10 of lines 148-149
Tenth == One \div 10

\* classes of the example sets the functions are exercised on
NumClasses == 3
\* longest per-class list of those example sets
MaxLen == 3
\* largest requested sample size
MaxN == 3
\* pixels of an image
NumPixels == 2
\* largest step magnitude, in units of StepUnit
MaxStep == 4
\* largest iteration count
MaxIter == 3
\* largest loss value K.eval yields
MaxLoss == 2
\* resolution of a predicted probability vector
MaxWeight == 2
\* images per class of the driver's training set
TrainPerClass == 9

StepUnit == 3 * Tenth
StepValues == {s * StepUnit : s \in (0 - MaxStep)..MaxStep}
InputLevels == {0, 3 * Tenth, 7 * Tenth, One}
InputImages == [1..NumPixels -> InputLevels]
LossValues == 0..MaxLoss

Min(a, b) == IF a < b THEN a ELSE b
Max(a, b) == IF a > b THEN a ELSE b
Range(s) == {s[i] : i \in DOMAIN s}

----------------------------------------------------------------------------
(* numpy *)

\* an id no array has
Fresh(h) == CHOOSE i \in 1..(Cardinality(DOMAIN h) + 1) : i \notin DOMAIN h

Alloc(h, a) == (Fresh(h) :> a) @@ h

\* np.array([a]): a copy of a under one more leading dimension of size 1
NpBatch(a) == [batch |-> a.batch + 1, px |-> a.px]

\* np.add(a, s): a new array, s added to every pixel
NpAdd(a, s) == [batch |-> a.batch, px |-> [j \in DOMAIN a.px |-> a.px[j] + s]]

\* np.clip(a, 0, 1): a new array, every pixel brought into [0, 1]
NpClipUpper(a) == [batch |-> a.batch, px |-> [j \in DOMAIN a.px |-> Min(a.px[j], One)]]
NpClip(a) == [batch |-> a.batch, px |-> [j \in DOMAIN a.px |-> Min(Max(a.px[j], 0), One)]]

\* x2 = np.add(x, s) and x2 = np.clip(x, 0, 1) on the heap: the result is a new array
HeapAddInPlace(h, x, s) == [heap |-> [h EXCEPT ![x] = NpAdd(h[x], s)], id |-> x]
HeapAdd(h, x, s) == [heap |-> Alloc(h, NpAdd(h[x], s)), id |-> Fresh(h)]
HeapClip(h, x) == [heap |-> Alloc(h, NpClip(h[x])), id |-> Fresh(h)]

\* np.argmin(p): the first (0-based) index of the smallest entry
ArgMin(p) == (CHOOSE c \in DOMAIN p :
                /\ \A d \in DOMAIN p : p[c] <= p[d]
                /\ \A d \in DOMAIN p : d < c => p[d] > p[c]) - 1

\* np.argmax(p): the first (0-based) index of the largest entry
ArgMax(p) == (CHOOSE c \in DOMAIN p :
                /\ \A d \in DOMAIN p : p[c] >= p[d]
                /\ \A d \in DOMAIN p : d < c => p[d] < p[c]) - 1

\* s[lo:hi] for 0 <= lo <= hi: a new list, cut short where s ends
PySlice(s, lo, hi) == [i \in 1..(Min(hi, Len(s)) - Min(lo, Len(s))) |-> s[Min(lo, Len(s)) + i]]

\* the probability vectors of K classes at resolution 1/W: non-negative entries
\* that sum to W; entry c + 1 is the probability of class c
RECURSIVE ProbVectors(_, _)
ProbVectors(K, W) ==
    IF K = 0 THEN (IF W = 0 THEN {<<>>} ELSE {})
    ELSE UNION {{Append(p, w) : p \in ProbVectors(K - 1, W - w)} : w \in 0..W}

\* what model.predict may return for one example
PredVectors == ProbVectors(Cardinality(DOMAIN examples), MaxWeight)

----------------------------------------------------------------------------
(* load_data *)

\* pixel data of the i-th image of class c (synthetic, all images of a class differ)
StoredImage(c, i) == [batch |-> 0, px |-> [j \in 1..NumPixels |-> ((3 * c + 2 * i + 5 * j) % 11) * Tenth]]

RECURSIVE Base(_, _)
Base(lens, c) == IF c = 0 THEN 0 ELSE Base(lens, c - 1) + lens[c - 1]

\* the example set of a training set holding lens[c] images of class c
LoadData(lens) ==
    LET K == Cardinality(DOMAIN lens)
        ClassOf(id) == CHOOSE c \in DOMAIN lens : Base(lens, c) < id /\ id <= Base(lens, c) + lens[c]
    IN  [examples |-> [c \in DOMAIN lens |-> [i \in 1..lens[c] |-> Base(lens, c) + i]],
         heap |-> [id \in 1..Base(lens, K) |-> StoredImage(ClassOf(id), id - Base(lens, ClassOf(id)))]]

DatasetIds == UNION {Range(examples[c]) : c \in DOMAIN examples}

\* the arrays some variable still refers to
LiveIds == (DatasetIds \cup {args.example, adv_example, llc_example, adversarial_example}
              \cup Range(pure_examples) \cup Range(main_pure)) \ {0}

Collect(h, live) == [id \in (DOMAIN h) \cap live |-> h[id]]

----------------------------------------------------------------------------
(* get_pure_examples, lines 44-55 *)

\* line 49: the upper end of random.randint(0, .)
RandintHighByClass(ex, n, cls) == Len(ex[cls]) - n - 1
RandintHigh(ex, n, cls) == Cardinality(DOMAIN ex) - n - 1

\* lines 52-53: every element of the slice replaced by a batch of one
RECURSIVE WrapFrom(_, _, _)
WrapFrom(h, lst, i) ==
    IF i > Len(lst) THEN [heap |-> h, list |-> lst]
    ELSE WrapFrom(Alloc(h, NpBatch(h[lst[i]])), [lst EXCEPT ![i] = Fresh(h)], i + 1)

\* lines 50-55 once the offset low is drawn
GetPureExamples(h, ex, n, cls, low) == WrapFrom(h, PySlice(ex[cls], low, low + n), 1)

NoArgs == [example |-> 0, class_ |-> 0 - 1, num_examples |-> 0, epsilon |-> 0, alpha |-> 0, num_iterations |-> 0]
NoLine == [fmt |-> "", vals |-> <<>>]

InitRest ==
    /\ pc = "idle" /\ caller = "harness" /\ fn = "none" /\ args = NoArgs
    /\ in_px = <<>> /\ exc = "none"
    /\ low_limit = 0 - 1 /\ pure_examples = <<>>
    /\ loss = 0 /\ loss_delta = 0 /\ gradient_sign = 0 /\ y_true = 0 - 1
    /\ epsilon = 0 /\ alpha = 0 /\ adv_example = 0 /\ k = 0 /\ estimates = 0
    /\ llc_example = 0 /\ preds = <<>> /\ ll_class = 0 - 1
    /\ main_pure = <<>> /\ main_i = 0 /\ main_j = 0 /\ main_epsilon = 0
    /\ main_alpha = 0 /\ adversarial_example = 0 /\ line = NoLine

\* a call of get_pure_examples(examples, n, cls) on its own
CallGetPureExamples ==
    /\ pc = "idle" /\ caller = "harness"
    /\ \E n \in 0..MaxN, cls \in DOMAIN examples :
        /\ fn' = "get_pure_examples"
        /\ args' = [NoArgs EXCEPT !.num_examples = n, !.class_ = cls]
        /\ IF RandintHigh(examples, n, cls) < 0
           THEN /\ pc' = "raised" /\ exc' = "ValueError"
                /\ UNCHANGED <<heap, gpeVars>>
           ELSE \E low \in 0..RandintHigh(examples, n, cls) :
                LET r == GetPureExamples(heap, examples, n, cls, low)
                IN  /\ pc' = "returned" /\ exc' = "none"
                    /\ low_limit' = low
                    /\ pure_examples' = r.list
                    /\ heap' = Collect(r.heap, DatasetIds \cup Range(r.list))
    /\ UNCHANGED <<examples, loaded, caller, in_px, cgsVars, atkVars, llcVars, mainVars>>

\* the harness drops a finished call's frame
Reset ==
    /\ pc \in {"returned", "raised"} /\ caller = "harness"
    /\ pc' = "idle" /\ fn' = "none" /\ args' = NoArgs /\ in_px' = <<>> /\ exc' = "none"
    /\ low_limit' = 0 - 1 /\ pure_examples' = <<>>
    /\ loss' = 0 /\ loss_delta' = 0 /\ gradient_sign' = 0 /\ y_true' = 0 - 1
    /\ epsilon' = 0 /\ alpha' = 0 /\ adv_example' = 0 /\ k' = 0 /\ estimates' = 0
    /\ llc_example' = 0 /\ preds' = <<>> /\ ll_class' = 0 - 1
    /\ heap' = Collect(heap, DatasetIds)
    /\ UNCHANGED <<examples, loaded, caller, mainVars>>

----------------------------------------------------------------------------
(* compute_gradient_sign, lines 57-76 *)

\* line 65: x_delta = np.add(x, delta), a new array
ProbeShift(h, x) == Alloc(h, NpAdd(h[x], Delta))

\* lines 73-76
GradientSignGe(l, ld) == IF ld >= l THEN 1 ELSE 0 - 1
GradientSign(l, ld) == IF ld > l THEN 1 ELSE 0 - 1

\* the heap the call leaves and the sign it returns, the two losses being l and ld
ComputeGradientSign(h, x, l, ld) == [heap |-> ProbeShift(h, x), sign |-> GradientSign(l, ld)]

\* every outcome of one call, whatever the model predicts
Estimates(h, x) ==
    LET hp == ProbeShift(h, x)
    IN  {[heap |-> hp, sign |-> ComputeGradientSign(h, x, l, ld).sign] : l \in LossValues, ld \in LossValues}

\* every class np.argmax(model.predict(.)) may give
Predictions == {ArgMax(p) : p \in PredVectors}

\* a call of compute_gradient_sign(model, x, y) on its own, x a batch of one image
CallComputeGradientSign ==
    /\ pc = "idle" /\ caller = "harness"
    /\ \E img \in InputImages, y \in DOMAIN examples, l \in LossValues, ld \in LossValues :
        LET x == Fresh(heap)
            r == ComputeGradientSign(Alloc(heap, [batch |-> 1, px |-> img]), x, l, ld)
        IN  /\ fn' = "compute_gradient_sign"
            /\ args' = [NoArgs EXCEPT !.example = x, !.class_ = y]
            /\ in_px' = img
            /\ loss' = l /\ loss_delta' = ld
            /\ gradient_sign' = r.sign /\ y_true' = y
            /\ pc' = "returned"
            /\ heap' = Collect(r.heap, DatasetIds \cup {x})
    /\ UNCHANGED <<examples, loaded, caller, exc, gpeVars, atkVars, llcVars, mainVars>>

----------------------------------------------------------------------------
(* fast_gradient_sign, lines 90-101 *)

\* lines 96-101 once the sign gs is estimated: the heap, the local epsilon and
\* the array returned
FastGradientSign(h, example, eps, gs) ==
    LET e2 == eps * gs
        added == HeapAdd(h, example, e2)
        clipped == HeapClip(added.heap, added.id)
    IN  [heap |-> clipped.heap, epsilon |-> e2, adv |-> clipped.id]

\* a call of fast_gradient_sign(model, example, cls, eps) on its own
CallFastGradientSign ==
    /\ pc = "idle" /\ caller = "harness"
    /\ \E img \in InputImages, cls \in DOMAIN examples, eps \in StepValues :
       \E g \in Estimates(Alloc(heap, [batch |-> 1, px |-> img]), Fresh(heap)) :
        LET x == Fresh(heap)
            r == FastGradientSign(g.heap, x, eps, g.sign)
        IN  /\ fn' = "fast_gradient_sign"
            /\ args' = [NoArgs EXCEPT !.example = x, !.class_ = cls, !.epsilon = eps]
            /\ in_px' = img
            /\ gradient_sign' = g.sign /\ y_true' = cls
            /\ epsilon' = r.epsilon /\ adv_example' = r.adv
            /\ estimates' = 1
            /\ pc' = "returned"
            /\ heap' = Collect(r.heap, DatasetIds \cup {x, r.adv})
    /\ UNCHANGED <<examples, loaded, caller, exc, gpeVars, loss, loss_delta, alpha, k,
                   llcVars, mainVars>>

----------------------------------------------------------------------------
(* basic_iterative, lines 103-117, and the loop of lines 132-138 *)

\* lines 109, 132: range(0, num_iterations) is exhausted
LoopDoneOneShort(i, n) == i >= n - 1
LoopDone(i, n) == i >= n

\* lines 111-115 (134-138) once the sign gs is estimated: the heap, the local
\* alpha and the new adv_example
IterStep(h, adv, a, gs) ==
    LET a2 == a * gs
        added == HeapAdd(h, adv, a2)
        clipped == HeapClip(added.heap, added.id)
    IN  [heap |-> clipped.heap, alpha |-> a2, adv |-> clipped.id]

\* line 107: adv_example names the caller's array
BimStart(example) == example

\* a call of basic_iterative(model, example, cls, a, 0.5, n) on its own
CallBasicIterative ==
    /\ pc = "idle" /\ caller = "harness"
    /\ \E img \in InputImages, cls \in DOMAIN examples, a \in StepValues, n \in 0..MaxIter :
        LET x == Fresh(heap)
        IN  /\ fn' = "basic_iterative"
            /\ args' = [NoArgs EXCEPT !.example = x, !.class_ = cls, !.alpha = a,
                                      !.epsilon = 5 * Tenth, !.num_iterations = n]
            /\ in_px' = img
            /\ heap' = Alloc(heap, [batch |-> 1, px |-> img])
            /\ adv_example' = BimStart(x) /\ alpha' = a /\ k' = 0 /\ estimates' = 0
            /\ pc' = "bim_109"
    /\ UNCHANGED <<examples, loaded, caller, exc, gpeVars, cgsVars, epsilon, llcVars, mainVars>>

\* one iteration of lines 109-115
BimIter ==
    /\ pc = "bim_109" /\ ~LoopDone(k, args.num_iterations)
    /\ \E g \in Estimates(heap, adv_example) :
        LET r == IterStep(g.heap, adv_example, alpha, g.sign)
        IN  /\ gradient_sign' = g.sign /\ y_true' = args.class_
            /\ alpha' = r.alpha /\ adv_example' = r.adv
            /\ k' = k + 1 /\ estimates' = estimates + 1
            /\ heap' = Collect(r.heap, (LiveIds \ {adv_example}) \cup {args.example, r.adv})
    /\ UNCHANGED <<examples, loaded, ctlVars, gpeVars, loss, loss_delta, epsilon, llcVars, mainVars>>

\* line 117
BimReturn ==
    /\ pc = "bim_109" /\ LoopDone(k, args.num_iterations)
    /\ IF caller = "main"
       THEN /\ pc' = "m169"
            /\ adversarial_example' = adv_example
            /\ adv_example' = 0 /\ alpha' = 0 /\ k' = 0 /\ estimates' = 0
            /\ gradient_sign' = 0 /\ y_true' = 0 - 1
            /\ heap' = Collect(heap, LiveIds)
       ELSE /\ pc' = "returned"
            /\ UNCHANGED <<adversarial_example, adv_example, alpha, k, estimates,
                           gradient_sign, y_true, heap>>
    /\ UNCHANGED <<examples, loaded, caller, fn, args, in_px, exc, gpeVars, loss, loss_delta, epsilon,
                   llcVars, main_pure, main_i, main_j, main_epsilon, main_alpha, line>>

----------------------------------------------------------------------------
(* least_likely_class, lines 78-87 *)

\* line 86
MostLikely(p) == ArgMax(p)
LeastLikely(p) == ArgMin(p)

\* a call of least_likely_class(model, examples, cls) on its own
CallLeastLikelyClass ==
    /\ pc = "idle" /\ caller = "harness"
    /\ \E cls \in DOMAIN examples :
        /\ fn' = "least_likely_class"
        /\ args' = [NoArgs EXCEPT !.class_ = cls]
    /\ pc' = "llc_83"
    /\ UNCHANGED <<dataVars, caller, in_px, exc, gpeVars, cgsVars, atkVars, llcVars, mainVars>>

\* lines 83-84: one example of args.class_ is sampled
Llc83 ==
    /\ pc = "llc_83"
    /\ IF RandintHigh(examples, 1, args.class_) < 0
       THEN /\ pc' = "raised" /\ exc' = "ValueError"
            /\ UNCHANGED <<heap, gpeVars, llc_example>>
       ELSE \E low \in 0..RandintHigh(examples, 1, args.class_) :
            LET r == GetPureExamples(heap, examples, 1, args.class_, low)
            IN  /\ low_limit' = low
                /\ IF r.list = <<>>
                   THEN \* line 84: example[0] of an empty list
                        /\ pc' = "raised" /\ exc' = "IndexError"
                        /\ UNCHANGED <<heap, pure_examples, llc_example>>
                   ELSE /\ pure_examples' = r.list
                        /\ llc_example' = r.list[1]
                        /\ heap' = Collect(r.heap, LiveIds \cup Range(r.list))
                        /\ pc' = "llc_85" /\ UNCHANGED exc
    /\ UNCHANGED <<examples, loaded, caller, fn, args, in_px, cgsVars, atkVars, preds, ll_class,
                   mainVars>>

\* lines 85-86: the model predicts on the example, and the argmin is taken
Llc85 ==
    /\ pc = "llc_85"
    /\ \E p \in PredVectors :
        /\ preds' = p
        /\ ll_class' = LeastLikely(p)
    /\ pc' = "llc_87"
    /\ UNCHANGED <<dataVars, caller, fn, args, in_px, exc, gpeVars, cgsVars, atkVars,
                   llc_example, mainVars>>

\* line 87: the frame of least_likely_class is dropped, ll_class is handed back
Llc87 ==
    /\ pc = "llc_87"
    /\ pc' = IF fn = "iterative_least_likely_class" THEN "illc_127" ELSE "returned"
    /\ llc_example' = 0 /\ preds' = <<>> /\ pure_examples' = <<>>
    /\ heap' = Collect(heap, LiveIds \ (Range(pure_examples) \cup {llc_example}))
    /\ UNCHANGED <<examples, loaded, caller, fn, args, in_px, exc, low_limit, cgsVars, atkVars,
                   ll_class, mainVars>>

----------------------------------------------------------------------------
(* iterative_least_likely_class, lines 119-140 *)

\* line 127: the class whose example the perturbation starts from
StartClass(target, ll) == ll

\* a call of iterative_least_likely_class(model, examples, target, a, 0.5, n) on its own
CallIterativeLeastLikelyClass ==
    /\ pc = "idle" /\ caller = "harness"
    /\ \E target \in DOMAIN examples, a \in StepValues, n \in 0..MaxIter :
        /\ fn' = "iterative_least_likely_class"
        /\ args' = [NoArgs EXCEPT !.class_ = target, !.alpha = a, !.epsilon = 5 * Tenth,
                                  !.num_iterations = n]
    /\ pc' = "llc_83"
    /\ UNCHANGED <<dataVars, caller, in_px, exc, gpeVars, cgsVars, atkVars, llcVars, mainVars>>

\* lines 127-130: one example of the least likely class is sampled; it is adv_example
Illc127 ==
    /\ pc = "illc_127"
    /\ IF RandintHigh(examples, 1, StartClass(args.class_, ll_class)) < 0
       THEN /\ pc' = "raised" /\ exc' = "ValueError"
            /\ UNCHANGED <<heap, gpeVars, atkVars>>
       ELSE \E low \in 0..RandintHigh(examples, 1, StartClass(args.class_, ll_class)) :
            LET r == GetPureExamples(heap, examples, 1, StartClass(args.class_, ll_class), low)
            IN  /\ low_limit' = low
                /\ IF r.list = <<>>
                   THEN \* line 130: ll_class_example[0] of an empty list
                        /\ pc' = "raised" /\ exc' = "IndexError"
                        /\ UNCHANGED <<heap, pure_examples, atkVars>>
                   ELSE /\ pure_examples' = r.list
                        /\ adv_example' = r.list[1]
                        /\ alpha' = args.alpha /\ k' = 0 /\ estimates' = 0
                        /\ heap' = Collect(r.heap, LiveIds \cup Range(r.list))
                        /\ pc' = "illc_132" /\ UNCHANGED <<exc, epsilon>>
    /\ UNCHANGED <<examples, loaded, caller, fn, args, in_px, cgsVars, llcVars, mainVars>>

\* one iteration of lines 132-138
IllcIter ==
    /\ pc = "illc_132" /\ ~LoopDone(k, args.num_iterations)
    /\ \E g \in Estimates(heap, adv_example) :
        LET r == IterStep(g.heap, adv_example, alpha, g.sign)
        IN  /\ gradient_sign' = g.sign /\ y_true' = ll_class
            /\ alpha' = r.alpha /\ adv_example' = r.adv
            /\ k' = k + 1 /\ estimates' = estimates + 1
            /\ heap' = Collect(r.heap, (LiveIds \ {adv_example}) \cup Range(pure_examples) \cup {r.adv})
    /\ UNCHANGED <<examples, loaded, ctlVars, gpeVars, loss, loss_delta, epsilon, llcVars, mainVars>>

\* line 140
IllcReturn ==
    /\ pc = "illc_132" /\ LoopDone(k, args.num_iterations)
    /\ IF caller = "main"
       THEN /\ pc' = "m175"
            /\ adversarial_example' = adv_example
            /\ adv_example' = 0 /\ alpha' = 0 /\ k' = 0 /\ estimates' = 0
            /\ gradient_sign' = 0 /\ y_true' = 0 - 1
            /\ ll_class' = 0 - 1 /\ low_limit' = 0 - 1 /\ pure_examples' = <<>>
            /\ heap' = Collect(heap, (LiveIds \ Range(pure_examples)) \cup {adv_example})
       ELSE /\ pc' = "returned"
            /\ UNCHANGED <<adversarial_example, adv_example, alpha, k, estimates,
                           gradient_sign, y_true, ll_class, low_limit, pure_examples, heap>>
    /\ UNCHANGED <<examples, loaded, caller, fn, args, in_px, exc, loss, loss_delta, epsilon,
                   llc_example, preds, main_pure, main_i, main_j, main_epsilon, main_alpha, line>>

----------------------------------------------------------------------------
(* __main__, lines 142-177 *)

NUM_CLASSES == 10
test_class == 5
target_class == 0
num_iters == 20
\* line 148: [x/10 for x in range(20,30)]
alphas == [j \in 1..10 |-> (19 + j) * Tenth]
\* line 149: [x/10 for x in range(5,20)]
epsilons == [j \in 1..15 |-> (4 + j) * Tenth]

\* how many of the epsilons and of the alphas the modelled run sweeps
NumEpsilons == 3
NumAlphas == 2
SweptEpsilons == SubSeq(epsilons, 1, Min(NumEpsilons, Len(epsilons)))
SweptAlphas == SubSeq(alphas, 1, Min(NumAlphas, Len(alphas)))

PureFmt == "Prediction by the model on pure example: {}"
FgsFmt == "Prediction with epsilon {} is {}"
IterFmt == "Prediction with epsilon {} and alpha {} is {}"

\* the epsilon the lines 169 and 175 format into the result line
ReportedEpsilon == main_epsilon

\* lines 152-155: the pure examples are sampled
Main152 ==
    /\ pc = "m152"
    /\ line' = NoLine
    /\ fn' = "get_pure_examples"
    /\ args' = [NoArgs EXCEPT !.num_examples = 2, !.class_ = test_class]
    /\ IF RandintHigh(examples, 2, test_class) < 0
       THEN /\ pc' = "raised" /\ exc' = "ValueError"
            /\ UNCHANGED <<heap, low_limit, main_pure>>
       ELSE \E low \in 0..RandintHigh(examples, 2, test_class) :
            LET r == GetPureExamples(heap, examples, 2, test_class, low)
            IN  /\ low_limit' = low
                /\ main_pure' = r.list
                /\ heap' = Collect(r.heap, DatasetIds \cup Range(r.list))
                /\ pc' = IF Len(r.list) > 0 THEN "m157" ELSE "exit"
                /\ UNCHANGED exc
    /\ main_i' = 0
    /\ UNCHANGED <<examples, loaded, caller, in_px, pure_examples, cgsVars, atkVars, llcVars,
                   main_j, main_epsilon, main_alpha, adversarial_example>>

\* line 157: the prediction on the pure example is printed
Main157 ==
    /\ pc = "m157"
    /\ \E c \in Predictions : line' = [fmt |-> PureFmt, vals |-> <<c>>]
    /\ main_j' = 0
    /\ pc' = "m161"
    /\ UNCHANGED <<dataVars, caller, fn, args, in_px, exc, gpeVars, cgsVars, atkVars, llcVars,
                   main_pure, main_i, main_epsilon, main_alpha, adversarial_example>>

\* lines 161-162: the next epsilon, and fast_gradient_sign on the pure example
Main162 ==
    /\ pc = "m161" /\ main_j < Len(SweptEpsilons)
    /\ line' = NoLine
    /\ main_epsilon' = SweptEpsilons[main_j + 1]
    /\ \E g \in Estimates(heap, main_pure[main_i + 1]) :
        LET x == main_pure[main_i + 1]
            r == FastGradientSign(g.heap, x, SweptEpsilons[main_j + 1], g.sign)
        IN  /\ fn' = "fast_gradient_sign"
            /\ args' = [NoArgs EXCEPT !.example = x, !.class_ = test_class,
                                      !.epsilon = SweptEpsilons[main_j + 1]]
            /\ in_px' = heap[x].px
            /\ adversarial_example' = r.adv
            /\ heap' = Collect(r.heap, DatasetIds \cup Range(main_pure) \cup {r.adv})
    /\ pc' = "m163"
    /\ UNCHANGED <<examples, loaded, caller, exc, gpeVars, cgsVars, atkVars, llcVars,
                   main_pure, main_i, main_j, main_alpha>>

\* line 163: the prediction on the adversarial example is printed
Main163 ==
    /\ pc = "m163"
    /\ \E c \in Predictions : line' = [fmt |-> FgsFmt, vals |-> <<main_epsilon, c>>]
    /\ main_j' = main_j + 1
    /\ pc' = "m161"
    /\ UNCHANGED <<dataVars, caller, fn, args, in_px, exc, gpeVars, cgsVars, atkVars, llcVars,
                   main_pure, main_i, main_epsilon, main_alpha, adversarial_example>>

\* line 161, epsilons exhausted: on to line 166
Main166 ==
    /\ pc = "m161" /\ main_j = Len(SweptEpsilons)
    /\ line' = NoLine
    /\ main_j' = 0
    /\ pc' = "m167"
    /\ UNCHANGED <<dataVars, caller, fn, args, in_px, exc, gpeVars, cgsVars, atkVars, llcVars,
                   main_pure, main_i, main_epsilon, main_alpha, adversarial_example>>

\* lines 167-168: the next alpha, and basic_iterative is entered
Main168 ==
    /\ pc = "m167" /\ main_j < Len(SweptAlphas)
    /\ line' = NoLine
    /\ main_alpha' = SweptAlphas[main_j + 1]
    /\ fn' = "basic_iterative"
    /\ args' = [NoArgs EXCEPT !.example = main_pure[main_i + 1], !.class_ = test_class,
                              !.alpha = SweptAlphas[main_j + 1], !.epsilon = 5 * Tenth,
                              !.num_iterations = num_iters]
    /\ in_px' = heap[main_pure[main_i + 1]].px
    /\ adv_example' = BimStart(main_pure[main_i + 1])
    /\ alpha' = SweptAlphas[main_j + 1] /\ k' = 0 /\ estimates' = 0
    /\ adversarial_example' = 0
    /\ heap' = Collect(heap, DatasetIds \cup Range(main_pure))
    /\ pc' = "bim_109"
    /\ UNCHANGED <<examples, loaded, caller, exc, gpeVars, cgsVars, epsilon, llcVars,
                   main_pure, main_i, main_j, main_epsilon>>

\* lines 169, 175: the prediction on the adversarial example is printed
MainReport(at, back) ==
    /\ pc = at
    /\ \E c \in Predictions :
        line' = [fmt |-> IterFmt, vals |-> <<ReportedEpsilon, main_alpha, c>>]
    /\ main_j' = main_j + 1
    /\ pc' = back
    /\ UNCHANGED <<dataVars, caller, fn, args, in_px, exc, gpeVars, cgsVars, atkVars, llcVars,
                   main_pure, main_i, main_epsilon, main_alpha, adversarial_example>>

Main169 == MainReport("m169", "m167")

\* line 167, alphas exhausted: on to line 172
Main172 ==
    /\ pc = "m167" /\ main_j = Len(SweptAlphas)
    /\ line' = NoLine
    /\ main_j' = 0
    /\ pc' = "m173"
    /\ UNCHANGED <<dataVars, caller, fn, args, in_px, exc, gpeVars, cgsVars, atkVars, llcVars,
                   main_pure, main_i, main_epsilon, main_alpha, adversarial_example>>

\* lines 173-174: the next alpha, and iterative_least_likely_class is entered
Main174 ==
    /\ pc = "m173" /\ main_j < Len(SweptAlphas)
    /\ line' = NoLine
    /\ main_alpha' = SweptAlphas[main_j + 1]
    /\ fn' = "iterative_least_likely_class"
    /\ args' = [NoArgs EXCEPT !.class_ = target_class, !.alpha = SweptAlphas[main_j + 1],
                              !.epsilon = 5 * Tenth, !.num_iterations = num_iters]
    /\ in_px' = <<>>
    /\ adversarial_example' = 0
    /\ heap' = Collect(heap, DatasetIds \cup Range(main_pure))
    /\ pc' = "llc_83"
    /\ UNCHANGED <<examples, loaded, caller, exc, gpeVars, cgsVars, atkVars, llcVars,
                   main_pure, main_i, main_j, main_epsilon>>

Main175 == MainReport("m175", "m173")

\* line 177, and line 155: the next pure example
Main177 ==
    /\ pc = "m173" /\ main_j = Len(SweptAlphas)
    /\ line' = NoLine
    /\ main_i' = main_i + 1
    /\ pc' = IF main_i + 1 < Len(main_pure) THEN "m157" ELSE "exit"
    /\ UNCHANGED <<dataVars, caller, fn, args, in_px, exc, gpeVars, cgsVars, atkVars, llcVars,
                   main_pure, main_j, main_epsilon, main_alpha, adversarial_example>>

----------------------------------------------------------------------------
(* The sampler on its own, over every small example set *)

SamplerInit ==
    /\ \E K \in 1..NumClasses : \E lens \in [0..(K - 1) -> 0..MaxLen] :
        /\ examples = LoadData(lens).examples
        /\ heap = LoadData(lens).heap
        /\ loaded = lens
    /\ InitRest

SamplerNext == CallGetPureExamples \/ Reset

SamplerSpec == SamplerInit /\ [][SamplerNext]_vars

----------------------------------------------------------------------------
(* Every function on its own, on one example set whose class c holds c images *)

Init ==
    /\ examples = LoadData([c \in 0..(NumClasses - 1) |-> c]).examples
    /\ heap = LoadData([c \in 0..(NumClasses - 1) |-> c]).heap
    /\ loaded = [c \in 0..(NumClasses - 1) |-> c]
    /\ InitRest

Next ==
    \/ CallGetPureExamples
    \/ CallComputeGradientSign
    \/ CallFastGradientSign
    \/ CallBasicIterative \/ BimIter \/ BimReturn
    \/ CallLeastLikelyClass \/ Llc83 \/ Llc85 \/ Llc87
    \/ CallIterativeLeastLikelyClass \/ Illc127 \/ IllcIter \/ IllcReturn
    \/ Reset

Spec == Init /\ [][Next]_vars

----------------------------------------------------------------------------
(* The program: __main__ on a training set of TrainPerClass images per class *)

DriverInit ==
    /\ examples = LoadData([c \in 0..(NUM_CLASSES - 1) |-> TrainPerClass]).examples
    /\ heap = LoadData([c \in 0..(NUM_CLASSES - 1) |-> TrainPerClass]).heap
    /\ loaded = [c \in 0..(NUM_CLASSES - 1) |-> TrainPerClass]
    /\ pc = "m152" /\ caller = "main" /\ fn = "none" /\ args = NoArgs
    /\ in_px = <<>> /\ exc = "none"
    /\ low_limit = 0 - 1 /\ pure_examples = <<>>
    /\ loss = 0 /\ loss_delta = 0 /\ gradient_sign = 0 /\ y_true = 0 - 1
    /\ epsilon = 0 /\ alpha = 0 /\ adv_example = 0 /\ k = 0 /\ estimates = 0
    /\ llc_example = 0 /\ preds = <<>> /\ ll_class = 0 - 1
    /\ main_pure = <<>> /\ main_i = 0 /\ main_j = 0 /\ main_epsilon = 0
    /\ main_alpha = 0 /\ adversarial_example = 0 /\ line = NoLine

DriverNext ==
    \/ Main152 \/ Main157
    \/ Main162 \/ Main163 \/ Main166
    \/ Main168 \/ BimIter \/ BimReturn \/ Main169 \/ Main172
    \/ Main174 \/ Llc83 \/ Llc85 \/ Llc87 \/ Illc127 \/ IllcIter \/ IllcReturn \/ Main175
    \/ Main177

DriverSpec == DriverInit /\ [][DriverNext]_vars

----------------------------------------------------------------------------
(* Properties of the sampler (SamplerSpec) *)

Returned(f) == fn = f /\ pc = "returned"
Ended(f) == fn = f /\ pc \in {"returned", "raised"}
IsBatchOf(id, src) == heap[id] = [batch |-> 1, px |-> heap[src].px]

\* C4: whenever get_pure_examples returns, the result holds exactly num_examples
\* elements, the run of the class's list that starts at the drawn offset, each a
\* batch of one with the stored image's pixel data.
C4_ExactSlice ==
    Returned("get_pure_examples") =>
        /\ Len(pure_examples) = args.num_examples
        /\ \A i \in 1..Len(pure_examples) :
            /\ low_limit + i <= Len(examples[args.class_])
            /\ IsBatchOf(pure_examples[i], examples[args.class_][low_limit + i])

\* C6: whenever the requested class holds fewer than num_examples + 1 examples,
\* get_pure_examples fails and returns no sample (stated for a request of at least
\* one example).
C6_FailsWhenClassShort ==
    (/\ Ended("get_pure_examples")
     /\ args.num_examples >= 1
     /\ Len(examples[args.class_]) < args.num_examples + 1) =>
        pc = "raised" /\ exc # "none" /\ pure_examples = <<>>

\* C10: the offset get_pure_examples draws lies in 0 .. (number of classes -
\* num_examples - 1) whatever the length of the requested class's list, so every
\* returned example has an index below (number of classes - 1) in that list, and
\* the call raises before sampling when num_examples >= number of classes.
C10_OffsetFromClassCount ==
    Ended("get_pure_examples") =>
        LET K == Cardinality(DOMAIN examples)
            n == args.num_examples
        IN  IF n >= K
            THEN pc = "raised" /\ exc = "ValueError" /\ low_limit = 0 - 1 /\ pure_examples = <<>>
            ELSE /\ pc = "returned"
                 /\ low_limit \in 0..(K - n - 1)
                 /\ \A i \in 1..Len(pure_examples) :
                     /\ (low_limit + i) - 1 < K - 1
                     /\ IsBatchOf(pure_examples[i], examples[args.class_][low_limit + i])

\* C10, its case: an offset beyond the end of the requested class's list was drawn
C10_OffsetBeyondList ==
    /\ Returned("get_pure_examples")
    /\ args.num_examples >= 1
    /\ Len(examples[args.class_]) >= 1
    /\ low_limit >= Len(examples[args.class_])

----------------------------------------------------------------------------
(* Properties of the functions (Spec) *)

Attacks == {"fast_gradient_sign", "basic_iterative", "iterative_least_likely_class"}
Iterative == {"basic_iterative", "iterative_least_likely_class"}
InLoop == pc \in {"bim_109", "illc_132", "returned"}
InUnitRange(id) == \A j \in DOMAIN heap[id].px : 0 <= heap[id].px[j] /\ heap[id].px[j] <= One

\* C1: the example an attack holds at the end of every iteration, and the one it
\* returns, has every pixel in [0, 1].
C1_PixelsInUnitRange ==
    (fn \in Attacks /\ adv_example # 0) => InUnitRange(adv_example)

\* C1, its case: an iteration of basic_iterative stepped below 0 and was clipped
C1_ClippedAtZero ==
    /\ fn = "basic_iterative" /\ pc = "bim_109" /\ k = 1
    /\ \E j \in 1..NumPixels : in_px[j] + alpha < 0 /\ heap[adv_example].px[j] = 0

\* C2: in the iterative attacks the amount added in an iteration is the caller's
\* alpha times the sign estimated in that iteration.
C2_StepIsAlphaTimesFreshSign ==
    (fn \in Iterative /\ InLoop /\ k >= 1) => alpha = args.alpha * gradient_sign

\* C3: compute_gradient_sign returns +1 exactly when the loss on the shifted input
\* is strictly greater than the loss on the input, -1 otherwise, and leaves its
\* input batch as it was.
C3_SignIffLossIncreased ==
    Returned("compute_gradient_sign") =>
        /\ gradient_sign \in {1, 0 - 1}
        /\ (gradient_sign = 1) <=> (loss_delta > loss)
        /\ heap[args.example] = [batch |-> 1, px |-> in_px]

\* C3, its case: equal losses
C3_EqualLosses ==
    Returned("compute_gradient_sign") /\ loss_delta = loss /\ gradient_sign = 0 - 1

IsArgMin(c, p) ==
    /\ c + 1 \in DOMAIN p
    /\ \A d \in DOMAIN p : p[c + 1] <= p[d] /\ (d < c + 1 => p[d] > p[c + 1])

C5_State ==
    /\ pc = "llc_87" =>
        /\ IsArgMin(ll_class, preds)
        /\ IsBatchOf(llc_example, examples[args.class_][low_limit + 1])
    /\ (fn = "iterative_least_likely_class" /\ InLoop) =>
        /\ Len(pure_examples) = 1
        /\ IsBatchOf(pure_examples[1], examples[ll_class][low_limit + 1])
        /\ k = 0 => adv_example = pure_examples[1]
        /\ k >= 1 => y_true = ll_class
        /\ k <= args.num_iterations /\ estimates = k
        /\ pc = "returned" => k = args.num_iterations

C5_Step ==
    (fn = "iterative_least_likely_class" /\ pc \in {"llc_87", "illc_127", "illc_132"}
        /\ pc' \in {"illc_127", "illc_132", "returned"})
    => ll_class' = ll_class

\* C5: in iterative_least_likely_class the label of every estimate is the argmin
\* (lowest index on ties) of the prediction on a sampled example of the target
\* class, the perturbation starts from a sampled example of that class, and the
\* array returned is the one reached after num_iterations rounds.
C5_LeastLikelyTarget == []C5_State /\ [][C5_Step]_vars

\* C5, its case: a run returned after rounds toward a class other than the target
C5_ReturnedOtherClass ==
    /\ Returned("iterative_least_likely_class")
    /\ k >= 2 /\ ll_class # args.class_ /\ y_true = ll_class

\* C8: basic_iterative returns after exactly num_iterations rounds, one estimate a
\* round, and with num_iterations = 0 returns its input unchanged.
C8_ExactlyNumIterations ==
    fn = "basic_iterative" =>
        /\ k <= args.num_iterations /\ estimates = k
        /\ pc = "returned" => k = args.num_iterations
        /\ (pc = "returned" /\ args.num_iterations = 0) =>
            /\ adv_example = args.example
            /\ heap[adv_example] = [batch |-> 1, px |-> in_px]

\* C8, its case: a run of several rounds returned
C8_ReturnedAfterRounds ==
    Returned("basic_iterative") /\ args.num_iterations >= 2 /\ estimates = args.num_iterations

FrameKept ==
    /\ examples = LoadData(loaded).examples
    /\ \A id \in DOMAIN LoadData(loaded).heap : id \in DOMAIN heap /\ heap[id] = LoadData(loaded).heap[id]
    /\ args.example # 0 => heap[args.example] = [batch |-> 1, px |-> in_px]

\* C9 as stated: no call changes the example set, an attack leaves the example it
\* was passed unmodified, and the adversarial example is a separate copy.
C9_FrameAndSeparateCopy ==
    /\ FrameKept
    /\ (fn \in Attacks /\ pc = "returned") =>
        adv_example # args.example /\ adv_example \notin DatasetIds

\* C9 amended: as stated, but the adversarial example is a separate array only when
\* a perturbation step ran: basic_iterative with num_iterations = 0 returns the
\* very array it was passed.
C9_FrameAndCopyAfterStep ==
    /\ FrameKept
    /\ (fn \in Attacks /\ pc = "returned") =>
        /\ adv_example \notin DatasetIds
        /\ IF fn = "basic_iterative" /\ args.num_iterations = 0
           THEN adv_example = args.example
           ELSE adv_example # args.example

\* C9, its case: basic_iterative returned after stepping away from its input
C9_InputKeptAfterSteps ==
    /\ Returned("basic_iterative") /\ k >= 2
    /\ heap[adv_example].px # in_px
    /\ heap[args.example].px = in_px

----------------------------------------------------------------------------
(* Properties of the program (DriverSpec) *)

\* C7: every result line printed for an attack reports the epsilon and the alpha
\* passed to the call whose prediction it reports, and a class in [0, NUM_CLASSES).
C7_LineReportsPassedParameters ==
    /\ (pc = "m161" /\ line.fmt = FgsFmt) =>
        /\ fn = "fast_gradient_sign"
        /\ line.vals[1] = args.epsilon
        /\ line.vals[2] \in 0..(NUM_CLASSES - 1)
    /\ (pc \in {"m167", "m173"} /\ line.fmt = IterFmt) =>
        /\ fn \in Iterative
        /\ line.vals[1] = args.epsilon
        /\ line.vals[2] = args.alpha
        /\ line.vals[3] \in 0..(NUM_CLASSES - 1)

====
